---- MODULE Spec2Model ----
(***************************************************************************)
(* Pascal simplices and their hyperplane sums.                             *)
(*                                                                         *)
(* The notebook defines four functions: createPascalSimplex,               *)
(* calculateHypersumsInPascalSimplex (with calculate_sum_nested_list),     *)
(* calculateSequence and validateFormula.  Each is translated below as an  *)
(* operator that computes what the Python code computes, loop by loop.     *)
(*                                                                         *)
(* Python values.  A Python list holds ints and lists in the same slots    *)
(* and the code tells them apart with isinstance; here an int n is the     *)
(* record [int |-> n] and a list is [list |-> <<...>>].  The top-level     *)
(* simplex, the hypersums and the sequence, which the code only ever       *)
(* treats as lists, are plain TLA+ sequences.  Python indexes from 0 and   *)
(* a TLA+ sequence from 1: s[i] in the code is s[i + 1] here.              *)
(*                                                                         *)
(* Integers.  Python integers are unbounded; the model checker's are       *)
(* 32-bit and it stops with an error on overflow, so the bounds below keep *)
(* every factorial (at most 12!) and every sum inside that range.          *)
(*                                                                         *)
(* Specifications.  Spec runs whole cells and calls, with arguments        *)
(* inside the documented ranges.  SpecHyper follows one function,          *)
(* calculateHypersumsInPascalSimplex, pass by pass of its inner loop, on    *)
(* smaller simplexes and with slopes below 1 as well; SpecHyperFair adds   *)
(* that a running loop keeps running.  SpecCreate follows the main         *)
(* createPascalSimplex entry by entry of its factorial table and pass by   *)
(* pass of generate_layer's stack loop.                                    *)
(***************************************************************************)
EXTENDS Integers, Sequences, FiniteSets

VARIABLES
    pc,         \* where the running cell or call stands
    builder,    \* which definition of createPascalSimplex is bound
    notebook,   \* which notebook's hypersums and sequence functions are bound
    layers,     \* argument of createPascalSimplex
    dimension,  \* argument of createPascalSimplex / calculateSequence
    slope,      \* argument m of calculateHypersumsInPascalSimplex / calculateSequence
    simplex,    \* the notebook's global `simplex`
    hypersums,  \* result of calculateHypersumsInPascalSimplex
    sequence,   \* result of calculateSequence
    length,     \* argument k of calculateSequence
    maxD, maxM, maxK,   \* arguments of validateFormula
    d, m, k,    \* loop variables of validateFormula
    all_okay,   \* validateFormula's flag
    printed,    \* what validateFormula printed, one entry per mismatch
    checked,    \* history: the triples whose loop body has run, in order
    result,     \* value returned by the finished call
    h_layer, h_i, h_plain_sum, h_res,
                \* locals layer, i, plain_sum and res of a running
                \* calculateHypersumsInPascalSimplex
    g_fact, g_i, g_x, g_simplex, g_layer, g_stack
                \* locals fact, i, x and simplex of a running
                \* createPascalSimplex, layer and stack of its generate_layer

hvars == <<h_layer, h_i, h_plain_sum, h_res>>

gvars == <<g_fact, g_i, g_x, g_simplex, g_layer, g_stack>>

vars == <<pc, builder, notebook, layers, dimension, slope, simplex, hypersums,
          sequence, length, maxD, maxM, maxK, d, m, k, all_okay, printed,
          checked, result, h_layer, h_i, h_plain_sum, h_res,
          g_fact, g_i, g_x, g_simplex, g_layer, g_stack>>

----------------------------------------------------------------------------
(* Bounds of the model. *)

MaxLayers == 12
MaxDim == 4
MaxSlope == 9
MaxSeqLen == 17
MaxValD == 4
MaxValM == 3
MaxValK == 6
MaxStepLayers == 5
MaxStepDim == 3
MaxStepSlope == 3
MaxPasses == 9
MaxGenLayers == 7
MaxGenDim == 4

----------------------------------------------------------------------------
(* Python values *)

PyInt(n) == [int |-> n]

PyList(s) == [list |-> s]

isinstance_int(v) == DOMAIN v = {"int"}

isinstance_list(v) == DOMAIN v = {"list"}

(* An exception leaves the call without a value. *)
Raise(e) == [exc |-> e, val |-> <<>>]

Return(v) == [exc |-> "none", val |-> v]

----------------------------------------------------------------------------
(* createPascalSimplex, main notebook *)

(* fact = [1] * layers; for i in range(1, layers): fact[i] = fact[i-1] * i *)
(* The entry computed from its predecessor by adding i. *)
FactStep_sum(fact, i) == [fact EXCEPT ![i + 1] = fact[i] + i]

(* The entry computed with the factor i + 1. *)
FactStep_next(fact, i) == [fact EXCEPT ![i + 1] = fact[i] * (i + 1)]

(* fact[i] = fact[i-1] * i *)
FactStep(fact, i) == [fact EXCEPT ![i + 1] = fact[i] * i]

RECURSIVE FactLoop(_, _, _)
FactLoop(fact, i, n) ==
    IF i >= n THEN fact
    ELSE FactLoop(FactStep(fact, i), i + 1, n)

(* The loop stopping one short: for i in range(1, layers - 1). *)
FactTable_short(n) == FactLoop([j \in 1..n |-> 1], 1, n - 1)

FactTable(n) == FactLoop([j \in 1..n |-> 1], 1, n)

(* The list object a stack item refers to is named by its path from the     *)
(* layer: the indices (from 0) to follow through the nested lists.          *)
RECURSIVE SublistAt(_, _)
SublistAt(node, path) ==
    IF path = <<>> THEN node
    ELSE SublistAt(node.list[path[1] + 1], Tail(path))

(* current_sublist.append(item) for each item of items, in order *)
RECURSIVE ExtendAt(_, _, _)
ExtendAt(node, path, items) ==
    IF path = <<>> THEN PyList(node.list \o items)
    ELSE PyList([node.list EXCEPT ![path[1] + 1] = ExtendAt(@, Tail(path), items)])

(* The parts the loops ignore the `reversed` of: range(n) ascending. *)
range_ascending(n) == [j \in 1..n |-> j - 1]

(* The parts of range(n - 1): one candidate short. *)
reversed_range_short(n) == [j \in 1..(n - 1) |-> (n - 1) - j]

(* reversed(range(n)): n-1, n-2, ..., 0 *)
reversed_range(n) == [j \in 1..n |-> n - j]

(* One pass of `while stack:` in generate_layer. *)
GenStep(st, x, dim, fact) ==
    LET top == st.stack[Len(st.stack)]
        rest == SubSeq(st.stack, 1, Len(st.stack) - 1)
        len0 == Len(SublistAt(st.layer, top.sub).list)
        ks == reversed_range(top.remaining + 1)
    IN  IF top.depth = dim - 1
        THEN [layer |-> ExtendAt(st.layer, top.sub,
                           <<PyInt(fact[x + 1] \div (top.fact_prod * fact[top.remaining + 1]))>>),
              stack |-> rest]
        ELSE IF top.depth + 1 = dim - 1
        THEN [layer |-> ExtendAt(st.layer, top.sub,
                           [j \in 1..Len(ks) |->
                              LET k_last == top.remaining - ks[j]
                                  denominator == top.fact_prod * fact[ks[j] + 1] * fact[k_last + 1]
                              IN  PyInt(fact[x + 1] \div denominator)]),
              stack |-> rest]
        ELSE [layer |-> ExtendAt(st.layer, top.sub,
                           [j \in 1..Len(ks) |-> PyList(<<>>)]),
              stack |-> rest \o
                           [j \in 1..Len(ks) |->
                              [sub |-> Append(top.sub, len0 + j - 1),
                               depth |-> top.depth + 1,
                               remaining |-> top.remaining - ks[j],
                               fact_prod |-> top.fact_prod * fact[ks[j] + 1]]]]

RECURSIVE GenLoop(_, _, _, _)
GenLoop(st, x, dim, fact) ==
    IF st.stack = <<>> THEN st.layer
    ELSE GenLoop(GenStep(st, x, dim, fact), x, dim, fact)

(* layer = []; stack = [(layer, 0, x, 1)] *)
GenStart(x) ==
    [layer |-> PyList(<<>>),
     stack |-> <<[sub |-> <<>>, depth |-> 0, remaining |-> x, fact_prod |-> 1]>>]

generate_layer(x, dim, fact) == GenLoop(GenStart(x), x, dim, fact)

(* The layers == 0 shortcut placed before the check of the dimension. *)
createPascalSimplex_shortcut_first(nlayers, dim) ==
    IF nlayers = 0 THEN Return(<<>>)
    ELSE IF dim < 1 THEN Raise("ValueError")
    ELSE IF dim = 1 THEN Return([x \in 1..nlayers |-> PyInt(1)])
    ELSE LET fact == FactTable(nlayers)
         IN  Return([x \in 1..nlayers |-> generate_layer(x - 1, dim, fact)])

(* Dimension 1 built by generate_layer like every other dimension. *)
createPascalSimplex_general(nlayers, dim) ==
    IF dim < 1 THEN Raise("ValueError")
    ELSE IF nlayers = 0 THEN Return(<<>>)
    ELSE LET fact == FactTable(nlayers)
         IN  Return([x \in 1..nlayers |-> generate_layer(x - 1, dim, fact)])

createPascalSimplex(nlayers, dim) ==
    IF dim < 1 THEN Raise("ValueError")
    ELSE IF nlayers = 0 THEN Return(<<>>)
    ELSE IF dim = 1 THEN Return([x \in 1..nlayers |-> PyInt(1)])
    ELSE LET fact == FactTable(nlayers)
         IN  Return([x \in 1..nlayers |-> generate_layer(x - 1, dim, fact)])

----------------------------------------------------------------------------
(* createPascalSimplex, earlier notebook: plain recursion, parts ascending *)

RECURSIVE factorial(_)
factorial(n) == IF n = 0 THEN 1 ELSE n * factorial(n - 1)

RECURSIVE FactorialProduct(_)
FactorialProduct(ks) ==
    IF ks = <<>> THEN 1 ELSE factorial(ks[1]) * FactorialProduct(Tail(ks))

(* The parts enumerated from the remaining budget down to 0. *)
RECURSIVE recurse_descending(_, _, _, _)
recurse_descending(k_list, remaining, x, dim) ==
    IF Len(k_list) = dim - 1
    THEN PyInt(factorial(x) \div FactorialProduct(Append(k_list, remaining)))
    ELSE PyList([j \in 1..(remaining + 1) |->
                    recurse_descending(Append(k_list, remaining - (j - 1)),
                                       j - 1, x, dim)])

RECURSIVE recurse(_, _, _, _)
recurse(k_list, remaining, x, dim) ==
    IF Len(k_list) = dim - 1
    THEN PyInt(factorial(x) \div FactorialProduct(Append(k_list, remaining)))
    ELSE PyList([j \in 1..(remaining + 1) |->
                    recurse(Append(k_list, j - 1), remaining - (j - 1), x, dim)])

generate_layer_part000(x, dim) ==
    IF dim = 0 THEN PyList(<<>>) ELSE recurse(<<>>, x, x, dim)

createPascalSimplex_part000(nlayers, dim) ==
    IF dim < 1 THEN Raise("ValueError")
    ELSE Return([x \in 1..nlayers |-> generate_layer_part000(x - 1, dim)])

----------------------------------------------------------------------------
(* calculate_sum_nested_list and calculateHypersumsInPascalSimplex *)

RECURSIVE calculate_sum_nested_list(_)
RECURSIVE SumElements(_, _, _)
(* for element in nested_list, from position j on, total_sum so far *)
SumElements(elems, j, total_sum) ==
    IF j > Len(elems) THEN total_sum
    ELSE LET element == elems[j]
         IN  IF isinstance_list(element)
             THEN SumElements(elems, j + 1, total_sum + calculate_sum_nested_list(element))
             ELSE SumElements(elems, j + 1, total_sum + element.int)

calculate_sum_nested_list(nested_list) == SumElements(nested_list.list, 1, 0)

(* The step taken as m + 1, the offset of the recurrence. *)
HyperIndex_offset(layer, i, mm) == layer - i * (mm + 1)

(* idx = layer - i * m *)
HyperIndex(layer, i, mm) == layer - i * mm

(* The list branch leaving the loop when i is out of bounds for value. *)
ListCase_stop(st, value) ==
    IF st.i < Len(value.list)
    THEN [i |-> st.i + 1,
          plain_sum |->
             LET sub_value == value.list[st.i + 1]
             IN  IF isinstance_int(sub_value)
                 THEN st.plain_sum + sub_value.int
                 ELSE st.plain_sum + calculate_sum_nested_list(sub_value),
          brk |-> FALSE]
    ELSE [st EXCEPT !.brk = TRUE]

(* if isinstance(value, list): (if i < len(value): plain_sum += ...) and   *)
(* then i += 1, whether or not i was in bounds.                            *)
ListCase(st, value) ==
    [i |-> st.i + 1,
     plain_sum |->
        IF st.i < Len(value.list)
        THEN LET sub_value == value.list[st.i + 1]
             IN  IF isinstance_int(sub_value)
                 THEN st.plain_sum + sub_value.int
                 ELSE st.plain_sum + calculate_sum_nested_list(sub_value)
        ELSE st.plain_sum,
     brk |-> FALSE]

(* The int branch without its break: plain_sum = 1, then i += 1. *)
ScalarCase_continue(st) == [i |-> st.i + 1, plain_sum |-> 1, brk |-> FALSE]

(* else: (value is an int) plain_sum = 1; break *)
ScalarCase(st) == [i |-> st.i, plain_sum |-> 1, brk |-> TRUE]

(* One pass of `while True:` for one layer; st = [i, plain_sum, brk]. *)
HyperStep(splx, mm, layer, st) ==
    LET idx == HyperIndex(layer, st.i, mm)
    IN  IF idx < 0 THEN [st EXCEPT !.brk = TRUE]
        ELSE IF idx >= Len(splx) THEN [st EXCEPT !.brk = TRUE]   \* IndexError
        ELSE LET value == splx[idx + 1]
             IN  IF isinstance_list(value)
                 THEN ListCase(st, value)
                 ELSE IF isinstance_int(value)
                 THEN ScalarCase(st)
                 ELSE [st EXCEPT !.i = @ + 1]

RECURSIVE HyperLoop(_, _, _, _)
HyperLoop(splx, mm, layer, st) ==
    IF st.brk THEN st.plain_sum
    ELSE HyperLoop(splx, mm, layer, HyperStep(splx, mm, layer, st))

calculateHypersumsInPascalSimplex(splx, mm) ==
    [l \in 1..Len(splx) |->
        HyperLoop(splx, mm, l - 1, [i |-> 0, plain_sum |-> 0, brk |-> FALSE])]

----------------------------------------------------------------------------
(* calculateSequence, main notebook *)

(* The seeds counted by m + 1 alone, without the min. *)
Min_second(a, b) == b

Min(a, b) == IF a <= b THEN a ELSE b

(* The recurrence of the docstring, x_n = (d-1)*x_{n-1} + x_{n-(m+1)}, in    *)
(* place of the one the code computes.                                     *)
RECURSIVE SeqLoop_swapped(_, _, _, _, _)
SeqLoop_swapped(res, i, dim, mm, kk) ==
    IF i >= kk THEN res
    ELSE SeqLoop_swapped(Append(res, (dim - 1) * res[(i - 1) + 1] + res[(i - (mm + 1)) + 1]),
                         i + 1, dim, mm, kk)

(* The second term read m places back instead of m + 1. *)
RECURSIVE SeqLoop_offset(_, _, _, _, _)
SeqLoop_offset(res, i, dim, mm, kk) ==
    IF i >= kk THEN res
    ELSE SeqLoop_offset(Append(res, res[(i - 1) + 1] + (dim - 1) * res[(i - mm) + 1]),
                        i + 1, dim, mm, kk)

(* for i in range(m + 1, k): res.append(res[i-1] + (dimension-1)*res[i-(m+1)]) *)
(* For m >= 0, the slopes the session draws, both indices are >= 0.          *)
RECURSIVE SeqLoop(_, _, _, _, _)
SeqLoop(res, i, dim, mm, kk) ==
    IF i >= kk THEN res
    ELSE SeqLoop(Append(res, res[(i - 1) + 1] + (dim - 1) * res[(i - (mm + 1)) + 1]),
                 i + 1, dim, mm, kk)

calculateSequence(dim, mm, kk) ==
    SeqLoop([i \in 1..Min(kk, mm + 1) |-> 1], mm + 1, dim, mm, kk)

----------------------------------------------------------------------------
(* The earlier notebook's hypersums and sequence *)

(* s[i] of Python is defined for -len(s) <= i < len(s); a negative index    *)
(* counts from the end.  Outside that range it raises IndexError.          *)
InRange(s, i) == 0 - Len(s) <= i /\ i < Len(s)

PyAt(s, i) == IF i >= 0 THEN s[i + 1] ELSE s[Len(s) + i + 1]

(* for i in range(0, layer): c += 1; for j in range(0, m): seq.append(c) *)
RECURSIVE PlainSeq(_, _, _, _, _)
PlainSeq(seq, c, i, layer, mm) ==
    IF i >= layer THEN seq
    ELSE PlainSeq(seq \o [j \in 1..mm |-> c + 1], c + 1, i + 1, layer, mm)

calculateNumberOfPlainElements(layer, mm) ==
    IF layer = 0 THEN Return(1)
    ELSE LET seq == PlainSeq(<<>>, 0, 0, layer, mm)
         IN  IF InRange(seq, layer) THEN Return(PyAt(seq, layer))
             ELSE Raise("IndexError")

(* for i in range(elements): the body of the loop, from pass i on *)
RECURSIVE PlainLoop_part000(_, _, _, _, _, _)
PlainLoop_part000(splx, mm, layer, i, elements, plainSum) ==
    IF i >= elements THEN Return(plainSum)
    ELSE LET idx == layer - i * mm
         IN  IF ~InRange(splx, idx) THEN Raise("IndexError")
             ELSE LET value == PyAt(splx, idx)
                  IN  IF isinstance_int(value)
                      THEN PlainLoop_part000(splx, mm, layer, i + 1, elements, 1)
                      ELSE IF ~InRange(value.list, i) THEN Raise("IndexError")
                      ELSE LET sub_value == PyAt(value.list, i)
                           IN  PlainLoop_part000(splx, mm, layer, i + 1, elements,
                                  IF isinstance_int(sub_value)
                                  THEN plainSum + sub_value.int
                                  ELSE plainSum + calculate_sum_nested_list(sub_value))

(* for layer in range(len(simplex)), from `layer` on, res so far *)
RECURSIVE LayerLoop_part000(_, _, _, _)
LayerLoop_part000(splx, mm, layer, res) ==
    IF layer >= Len(splx) THEN Return(res)
    ELSE LET elements == calculateNumberOfPlainElements(layer, mm + 1)
         IN  IF elements.exc # "none" THEN elements
             ELSE LET plainSum == PlainLoop_part000(splx, mm, layer, 0, elements.val, 0)
                  IN  IF plainSum.exc # "none" THEN plainSum
                      ELSE LayerLoop_part000(splx, mm, layer + 1,
                                             Append(res, plainSum.val))

calculateHypersumsInPascalSimplex_part000(splx, mm) ==
    LayerLoop_part000(splx, mm, 0, <<>>)

(* pow(base, e) for e >= 0 *)
RECURSIVE pow(_, _)
pow(base, e) == IF e = 0 THEN 1 ELSE base * pow(base, e - 1)

(* The second term carrying the factor: res[i-1] + (dimension-1)*res[i-(m+1)]. *)
RECURSIVE SeqLoop_part000_swapped(_, _, _, _, _)
SeqLoop_part000_swapped(res, i, dim, mm, kk) ==
    IF i >= kk THEN res
    ELSE SeqLoop_part000_swapped(
             Append(res, res[(i - 1) + 1] + (dim - 1) * res[(i - (mm + 1)) + 1]),
             i + 1, dim, mm, kk)

(* for i in range(m + 1, k): res.append((dimension-1)*res[i-1] + res[i-(m+1)]) *)
RECURSIVE SeqLoop_part000(_, _, _, _, _)
SeqLoop_part000(res, i, dim, mm, kk) ==
    IF i >= kk THEN res
    ELSE SeqLoop_part000(
             Append(res, (dim - 1) * res[(i - 1) + 1] + res[(i - (mm + 1)) + 1]),
             i + 1, dim, mm, kk)

calculateSequence_part000(dim, mm, kk) ==
    IF dim = 1 THEN [i \in 1..kk |-> 1]
    ELSE SeqLoop_part000([i \in 1..Min(kk, mm + 1) |-> pow(dim - 1, i - 1)],
                         mm + 1, dim, mm, kk)

----------------------------------------------------------------------------
(* The notebook session.  A session runs one of the notebook's cells with  *)
(* arguments drawn from the bounded sets: a cell that builds a simplex     *)
(* and the cell that sums its hyperplanes, a cell that evaluates the       *)
(* formula, or a call of validateFormula, whose loop advances one pass of  *)
(* its body at a time.                                                     *)

(* The definitions of createPascalSimplex a session can have bound: the    *)
(* main notebook's, or the earlier notebook's (ascending order).           *)
Builders == {"main", "part_000"}

(* What a session has bound: the cells of the main notebook, the cells of  *)
(* the earlier notebook, or the earlier createPascalSimplex with the rest  *)
(* of the main notebook run after it.                                      *)
Sessions ==
    {[builder |-> "main", notebook |-> "main"],
     [builder |-> "part_000", notebook |-> "main"],
     [builder |-> "part_000", notebook |-> "part_000"]}

Create(b, nlayers, dim) ==
    IF b = "main" THEN createPascalSimplex(nlayers, dim)
    ELSE createPascalSimplex_part000(nlayers, dim)

Hypersums(nbk, splx, mm) ==
    IF nbk = "main" THEN Return(calculateHypersumsInPascalSimplex(splx, mm))
    ELSE calculateHypersumsInPascalSimplex_part000(splx, mm)

Sequence(nbk, dim, mm, kk) ==
    IF nbk = "main" THEN calculateSequence(dim, mm, kk)
    ELSE calculateSequence_part000(dim, mm, kk)

Init ==
    /\ pc = "idle"
    /\ builder = "main" /\ notebook = "main"
    /\ layers = 0 /\ dimension = 0 /\ slope = 0 /\ length = 0
    /\ simplex = <<>> /\ hypersums = <<>> /\ sequence = <<>>
    /\ maxD = 0 /\ maxM = 0 /\ maxK = 0
    /\ d = 0 /\ m = 0 /\ k = 0
    /\ all_okay = TRUE
    /\ printed = <<>>
    /\ checked = <<>>
    /\ result = "none"
    /\ h_layer = 0 /\ h_i = 0 /\ h_plain_sum = 0 /\ h_res = <<>>
    /\ g_fact = <<>> /\ g_i = 0 /\ g_x = 0
    /\ g_simplex = <<>> /\ g_layer = PyList(<<>>) /\ g_stack = <<>>

(* simplex = createPascalSimplex(layers, dimension), the arguments drawn   *)
(* from 0..maxL and (-1)..maxDm.                                           *)
Build(ss, maxL, maxDm) ==
    /\ pc = "idle"
    /\ \E s \in ss, l \in 0..maxL, dm \in (-1)..maxDm :
          LET r == Create(s.builder, l, dm)
          IN  /\ builder' = s.builder /\ notebook' = s.notebook
              /\ layers' = l /\ dimension' = dm
              /\ IF r.exc # "none"
                 THEN pc' = "raised" /\ result' = r.exc /\ UNCHANGED simplex
                 ELSE pc' = "built" /\ simplex' = r.val /\ UNCHANGED result
    /\ UNCHANGED <<slope, hypersums, sequence, length, maxD, maxM, maxK,
                   d, m, k, all_okay, printed, checked>>
    /\ UNCHANGED hvars
    /\ UNCHANGED gvars

BuildCell == Build(Sessions, MaxLayers, MaxDim)

(* calculateHypersumsInPascalSimplex(simplex, m), the whole call *)
HypersumsCell ==
    /\ pc = "built"
    /\ \E mm \in 1..MaxSlope :
          LET r == Hypersums(notebook, simplex, mm)
          IN  /\ slope' = mm
              /\ IF r.exc # "none"
                 THEN pc' = "raised" /\ result' = r.exc /\ UNCHANGED hypersums
                 ELSE pc' = "summed" /\ hypersums' = r.val /\ UNCHANGED result
    /\ UNCHANGED <<builder, notebook, layers, dimension, simplex, sequence, length,
                   maxD, maxM, maxK, d, m, k, all_okay, printed, checked>>
    /\ UNCHANGED hvars
    /\ UNCHANGED gvars

(* calculateSequence(dimension, m, k) *)
SequenceCell ==
    /\ pc = "idle"
    /\ \E dm \in 1..MaxDim, mm \in 1..MaxSlope, kk \in 0..MaxSeqLen :
          /\ dimension' = dm /\ slope' = mm /\ length' = kk
          /\ sequence' = calculateSequence(dm, mm, kk)
    /\ pc' = "sequenced"
    /\ UNCHANGED <<builder, notebook, layers, simplex, hypersums, maxD, maxM, maxK,
                   d, m, k, all_okay, printed, checked, result>>
    /\ UNCHANGED hvars
    /\ UNCHANGED gvars

(* validateFormula(maxD, maxM, maxK): all_okay = True and the entry into   *)
(* the three nested range(1, max) loops; the body runs only when none of   *)
(* the ranges is empty.                                                    *)
ValidateCall ==
    /\ pc = "idle"
    /\ \E s \in Sessions, a \in 1..MaxValD, bb \in 1..MaxValM, c \in 1..MaxValK :
          /\ builder' = s.builder /\ notebook' = s.notebook
          /\ maxD' = a /\ maxM' = bb /\ maxK' = c
          /\ IF a > 1 /\ bb > 1 /\ c > 1
             THEN pc' = "v_body" /\ d' = 1 /\ m' = 1 /\ k' = 1
             ELSE pc' = "v_exit" /\ UNCHANGED <<d, m, k>>
    /\ all_okay' = TRUE
    /\ printed' = <<>>
    /\ checked' = <<>>
    /\ UNCHANGED <<layers, dimension, slope, simplex, hypersums, sequence,
                   length, result>>
    /\ UNCHANGED hvars
    /\ UNCHANGED gvars

(* The position of the loops after the body has run for (d, m, k). *)
NextTriple(dd, mm, kk, mD, mM, mK) ==
    IF kk + 1 < mK THEN [d |-> dd, m |-> mm, k |-> kk + 1, more |-> TRUE]
    ELSE IF mm + 1 < mM THEN [d |-> dd, m |-> mm + 1, k |-> 1, more |-> TRUE]
    ELSE IF dd + 1 < mD THEN [d |-> dd + 1, m |-> 1, k |-> 1, more |-> TRUE]
    ELSE [d |-> dd, m |-> mm, k |-> kk, more |-> FALSE]

(* The flag assigned on every pass, all_okay = (hypersums == sequence). *)
FlagAfter_overwrite(ok, hs, sq) == hs = sq

(* if hypersums != sequence: all_okay = False *)
FlagAfter(ok, hs, sq) == IF hs # sq THEN FALSE ELSE ok

(* One pass of the innermost loop body of validateFormula. *)
ValidateBody ==
    /\ pc = "v_body"
    /\ LET r == Create(builder, k, d)
           h == Hypersums(notebook, r.val, m)
           hs == h.val
           sq == Sequence(notebook, d, m, k)
           nx == NextTriple(d, m, k, maxD, maxM, maxK)
       IN  IF r.exc # "none"
           THEN /\ pc' = "raised" /\ result' = r.exc
                /\ UNCHANGED <<simplex, hypersums, sequence, all_okay, printed,
                               checked, d, m, k>>
           ELSE IF h.exc # "none"
           THEN /\ pc' = "raised" /\ result' = h.exc
                /\ simplex' = r.val
                /\ UNCHANGED <<hypersums, sequence, all_okay, printed,
                               checked, d, m, k>>
           ELSE /\ simplex' = r.val
                /\ hypersums' = hs
                /\ sequence' = sq
                /\ printed' = IF hs # sq
                              THEN Append(printed,
                                          [d |-> d, m |-> m, k |-> k,
                                           hypersums |-> hs, sequence |-> sq])
                              ELSE printed
                /\ all_okay' = FlagAfter(all_okay, hs, sq)
                /\ checked' = Append(checked, <<d, m, k>>)
                /\ d' = nx.d /\ m' = nx.m /\ k' = nx.k
                /\ pc' = IF nx.more THEN "v_body" ELSE "v_exit"
                /\ UNCHANGED result
    /\ UNCHANGED <<builder, notebook, layers, dimension, slope, length,
                   maxD, maxM, maxK>>
    /\ UNCHANGED hvars
    /\ UNCHANGED gvars

(* return all_okay *)
ValidateReturn ==
    /\ pc = "v_exit"
    /\ result' = all_okay
    /\ pc' = "returned"
    /\ UNCHANGED <<builder, notebook, layers, dimension, slope, simplex, hypersums,
                   sequence, length, maxD, maxM, maxK, d, m, k, all_okay,
                   printed, checked>>
    /\ UNCHANGED hvars
    /\ UNCHANGED gvars

Next ==
    \/ BuildCell
    \/ HypersumsCell
    \/ SequenceCell
    \/ ValidateCall
    \/ ValidateBody
    \/ ValidateReturn

Spec == Init /\ [][Next]_vars

----------------------------------------------------------------------------
(* calculateHypersumsInPascalSimplex pass by pass.  A session of the main  *)
(* notebook's function builds a simplex and calls the function on it, any  *)
(* number of times, with a slope that may lie outside the documented       *)
(* range; the call advances one pass of `while True:` at a time.  A loop   *)
(* that has not ended after MaxPasses passes is followed no further.       *)

StepSessions == {s \in Sessions : s.notebook = "main"}

BuildForSteps == Build(StepSessions, MaxStepLayers, MaxStepDim)

(* res = [] and the entry into `for layer in range(len(simplex))`; with    *)
(* an empty simplex the loop has no pass and the call returns res.         *)
HyperCall ==
    /\ pc \in {"built", "summed"}
    /\ \E mm \in (-2)..MaxStepSlope : slope' = mm
    /\ h_res' = <<>>
    /\ IF Len(simplex) = 0
       THEN /\ pc' = "summed" /\ hypersums' = <<>>
            /\ UNCHANGED <<h_layer, h_i, h_plain_sum>>
       ELSE /\ pc' = "h_loop" /\ h_layer' = 0 /\ h_i' = 0 /\ h_plain_sum' = 0
            /\ UNCHANGED hypersums
    /\ UNCHANGED <<builder, notebook, layers, dimension, simplex, sequence, length,
                   maxD, maxM, maxK, d, m, k, all_okay, printed, checked, result>>
    /\ UNCHANGED gvars

(* res.insert(0, plain_sum) *)
ResAppend_front(res, plain_sum) == <<plain_sum>> \o res

(* res.append(plain_sum) *)
ResAppend(res, plain_sum) == Append(res, plain_sum)

(* What one pass of `while True:` does to the locals: the pass itself,     *)
(* and after a break the append, the next layer or the return of res.      *)
PassLocals ==
    LET st == HyperStep(simplex, slope, h_layer,
                        [i |-> h_i, plain_sum |-> h_plain_sum, brk |-> FALSE])
    IN  IF st.brk
        THEN /\ h_res' = ResAppend(h_res, st.plain_sum)
             /\ IF h_layer + 1 < Len(simplex)
                THEN /\ pc' = "h_loop"
                     /\ h_layer' = h_layer + 1 /\ h_i' = 0 /\ h_plain_sum' = 0
                     /\ UNCHANGED hypersums
                ELSE /\ pc' = "summed"
                     /\ hypersums' = h_res'
                     /\ h_i' = st.i /\ h_plain_sum' = st.plain_sum
                     /\ UNCHANGED h_layer
        ELSE /\ h_i' = st.i /\ h_plain_sum' = st.plain_sum
             /\ UNCHANGED <<pc, h_layer, h_res, hypersums>>

(* A pass that also drops the last layer of the list it reads. *)
HyperPass_popping ==
    /\ pc = "h_loop"
    /\ h_i < MaxPasses
    /\ PassLocals
    /\ simplex' = SubSeq(simplex, 1, Len(simplex) - 1)
    /\ UNCHANGED <<builder, notebook, layers, dimension, slope, sequence, length,
                   maxD, maxM, maxK, d, m, k, all_okay, printed, checked, result>>
    /\ UNCHANGED gvars

(* One pass of `while True:`; no statement of it writes to simplex. *)
HyperPass ==
    /\ pc = "h_loop"
    /\ h_i < MaxPasses
    /\ PassLocals
    /\ UNCHANGED <<builder, notebook, layers, dimension, slope, simplex, sequence,
                   length, maxD, maxM, maxK, d, m, k, all_okay, printed, checked,
                   result>>
    /\ UNCHANGED gvars

NextHyper ==
    \/ BuildForSteps
    \/ HyperCall
    \/ HyperPass

SpecHyper == Init /\ [][NextHyper]_vars

(* A running loop goes on running: the interpreter executes the next pass. *)
SpecHyperFair == SpecHyper /\ WF_vars(HyperPass)

----------------------------------------------------------------------------
(* createPascalSimplex of the main notebook step by step: the loop that    *)
(* fills the factorial table one entry at a time, then for each x the      *)
(* call of generate_layer, one pass of `while stack:` at a time.           *)

(* The call, up to the loop of the factorial table. *)
CreateCall ==
    /\ pc = "idle"
    /\ \E l \in 0..MaxGenLayers, dm \in 0..MaxGenDim :
          /\ layers' = l /\ dimension' = dm
          /\ IF dm < 1
             THEN /\ pc' = "raised" /\ result' = "ValueError"
                  /\ UNCHANGED <<simplex, g_fact, g_i>>
             ELSE IF l = 0
             THEN /\ pc' = "built" /\ simplex' = <<>>
                  /\ UNCHANGED <<result, g_fact, g_i>>
             ELSE IF dm = 1
             THEN /\ pc' = "built" /\ simplex' = [x \in 1..l |-> PyInt(1)]
                  /\ UNCHANGED <<result, g_fact, g_i>>
             ELSE /\ pc' = "c_fact"
                  /\ g_fact' = [j \in 1..l |-> 1] /\ g_i' = 1
                  /\ UNCHANGED <<result, simplex>>
    /\ builder' = "main" /\ notebook' = "main"
    /\ UNCHANGED <<slope, hypersums, sequence, length, maxD, maxM, maxK,
                   d, m, k, all_okay, printed, checked>>
    /\ UNCHANGED <<g_x, g_simplex, g_layer, g_stack>>
    /\ UNCHANGED hvars

(* One pass of `for i in range(1, layers)`; after the last one simplex =   *)
(* [] and the first call generate_layer(0, dimension).                     *)
FactPass ==
    /\ pc = "c_fact"
    /\ IF g_i < layers
       THEN /\ g_fact' = FactStep(g_fact, g_i)
            /\ g_i' = g_i + 1
            /\ UNCHANGED <<pc, g_x, g_simplex, g_layer, g_stack>>
       ELSE /\ pc' = "c_layer"
            /\ g_simplex' = <<>> /\ g_x' = 0
            /\ g_layer' = GenStart(0).layer /\ g_stack' = GenStart(0).stack
            /\ UNCHANGED <<g_fact, g_i>>
    /\ UNCHANGED <<builder, notebook, layers, dimension, slope, simplex, hypersums,
                   sequence, length, maxD, maxM, maxK, d, m, k, all_okay,
                   printed, checked, result>>
    /\ UNCHANGED hvars

(* One pass of `while stack:`. *)
GenPass ==
    /\ pc = "c_layer"
    /\ g_stack # <<>>
    /\ LET st == GenStep([layer |-> g_layer, stack |-> g_stack],
                         g_x, dimension, g_fact)
       IN  g_layer' = st.layer /\ g_stack' = st.stack
    /\ UNCHANGED <<pc, g_fact, g_i, g_x, g_simplex>>
    /\ UNCHANGED <<builder, notebook, layers, dimension, slope, simplex, hypersums,
                   sequence, length, maxD, maxM, maxK, d, m, k, all_okay,
                   printed, checked, result>>
    /\ UNCHANGED hvars

(* return layer; simplex.append(...); the next x, or return simplex. *)
LayerReturn ==
    /\ pc = "c_layer"
    /\ g_stack = <<>>
    /\ g_simplex' = Append(g_simplex, g_layer)
    /\ IF g_x + 1 < layers
       THEN /\ g_x' = g_x + 1
            /\ g_layer' = GenStart(g_x + 1).layer
            /\ g_stack' = GenStart(g_x + 1).stack
            /\ UNCHANGED <<pc, simplex>>
       ELSE /\ pc' = "built"
            /\ simplex' = g_simplex'
            /\ UNCHANGED <<g_x, g_layer, g_stack>>
    /\ UNCHANGED <<g_fact, g_i>>
    /\ UNCHANGED <<builder, notebook, layers, dimension, slope, hypersums,
                   sequence, length, maxD, maxM, maxK, d, m, k, all_okay,
                   printed, checked, result>>
    /\ UNCHANGED hvars

NextCreate ==
    \/ CreateCall
    \/ FactPass
    \/ GenPass
    \/ LayerReturn

(* The loops of a running call keep executing. *)
SpecCreate ==
    /\ Init /\ [][NextCreate]_vars
    /\ WF_vars(FactPass) /\ WF_vars(GenPass) /\ WF_vars(LayerReturn)

----------------------------------------------------------------------------
(* Properties *)

(* C1: for every dimension, slope and length k >= 1 the hypersums of       *)
(* createPascalSimplex(k, d) at slope m equal calculateSequence(d, m, k)   *)
(* element by element, in the cell that sums a simplex and in every pass   *)
(* of validateFormula, so validateFormula returns True.                    *)
C1_HypersumsEqualSequence ==
    /\ (pc = "summed" /\ builder = "main" /\ layers >= 1)
          => hypersums = calculateSequence(dimension, slope, layers)
    /\ (pc \in {"v_body", "v_exit", "returned"} /\ builder = "main" /\ checked # <<>>)
          => hypersums = sequence
    /\ (pc \in {"v_body", "v_exit", "returned"} /\ builder = "main")
          => (all_okay = TRUE /\ printed = <<>>)
    /\ (pc = "returned" /\ builder = "main") => result = TRUE

(* The largest simplex of the sweep has been summed at slope 2, and the    *)
(* sums grow beyond the seed value. *)
C1_Witness ==
    /\ pc = "summed" /\ builder = "main"
    /\ layers = MaxLayers /\ dimension = MaxDim /\ slope = 2
    /\ Len(hypersums) = MaxLayers
    /\ hypersums[MaxLayers] > hypersums[MaxLayers - 1]
    /\ hypersums[MaxLayers - 1] > 1

(* Factorials and their products, for the multinomial coefficients. *)
RECURSIVE C2_Factorial(_)
C2_Factorial(n) == IF n <= 0 THEN 1 ELSE n * C2_Factorial(n - 1)

RECURSIVE C2_FactorialProduct(_)
C2_FactorialProduct(ks) ==
    IF ks = <<>> THEN 1 ELSE C2_Factorial(ks[1]) * C2_FactorialProduct(Tail(ks))

(* node lies below the indices that fixed the parts ks; jprev is the last  *)
(* of those indices (x itself at the top of the layer).                    *)
RECURSIVE C2_NodeOK(_, _, _, _, _)
C2_NodeOK(node, x, dim, jprev, ks) ==
    IF Len(ks) = dim - 1
    THEN /\ isinstance_int(node)
         /\ node.int * C2_FactorialProduct(Append(ks, jprev)) = C2_Factorial(x)
    ELSE /\ isinstance_list(node)
         /\ Len(node.list) = jprev + 1
         /\ \A j \in 0..jprev :
               C2_NodeOK(node.list[j + 1], x, dim, j, Append(ks, jprev - j))

(* The multi-indices of the scalars found in node, in list order. *)
RECURSIVE C2_Indices(_, _, _)
RECURSIVE C2_IndicesFrom(_, _, _, _)
C2_IndicesFrom(node, j, jprev, ks) ==
    IF j > Len(node.list) THEN <<>>
    ELSE C2_Indices(node.list[j], j - 1, Append(ks, jprev - (j - 1)))
            \o C2_IndicesFrom(node, j + 1, jprev, ks)

C2_Indices(node, jprev, ks) ==
    IF isinstance_int(node) THEN <<Append(ks, jprev)>>
    ELSE C2_IndicesFrom(node, 1, jprev, ks)

(* All sequences of n non-negative parts summing to x. *)
RECURSIVE C2_Compositions(_, _)
C2_Compositions(x, n) ==
    IF n = 1 THEN {<<x>>}
    ELSE UNION {{<<a>> \o c : c \in C2_Compositions(x - a, n - 1)} : a \in 0..x}

(* C2: in dimension d >= 2 the scalar of layer x at nested position        *)
(* (j_1, ..., j_{d-1}), x >= j_1 >= ... >= j_{d-1} >= 0, is the multinomial *)
(* coefficient x!/(k_1! ... k_d!) of k_1 = x - j_1, k_i = j_{i-1} - j_i,    *)
(* k_d = j_{d-1}, and every multi-index of d parts summing to x occurs at  *)
(* exactly one position.                                                   *)
C2_MultinomialAtPosition ==
    (pc = "built" /\ builder = "main" /\ dimension >= 2) =>
        \A x \in 0..(layers - 1) :
            /\ C2_NodeOK(simplex[x + 1], x, dimension, x, <<>>)
            /\ LET idx == C2_Indices(simplex[x + 1], x, <<>>)
               IN  /\ {idx[i] : i \in 1..Len(idx)} = C2_Compositions(x, dimension)
                   /\ Len(idx) = Cardinality(C2_Compositions(x, dimension))

(* The last layer of the largest simplex has been built: a list of lists   *)
(* whose entry at index 2 has three entries.                               *)
C2_Witness ==
    /\ pc = "built" /\ builder = "main"
    /\ dimension = MaxDim /\ dimension >= 3 /\ layers = MaxLayers
    /\ LET top == simplex[layers]
       IN  /\ isinstance_list(top)
           /\ Len(top.list) = layers
           /\ isinstance_list(top.list[3])
           /\ Len(top.list[3].list) = 3

(* C3: the list returned by calculateSequence(d, m, k), k >= 0, has        *)
(* x_n = 1 for 0 <= n < min(k, m+1) and x_n = x_{n-1} + (d-1)*x_{n-(m+1)}  *)
(* for m+1 <= n < k; for d = 1 it is k ones.                               *)
C3_SequenceRecurrence ==
    pc = "sequenced" =>
        /\ Len(sequence) = length
        /\ \A n \in 0..(length - 1) :
              /\ n < Min(length, slope + 1) => sequence[n + 1] = 1
              /\ n >= slope + 1 =>
                    sequence[n + 1] =
                       sequence[(n - 1) + 1] + (dimension - 1) * sequence[(n - (slope + 1)) + 1]
              /\ dimension = 1 => sequence[n + 1] = 1

(* The longest sequence at slope 2 in dimension 3 or more: seeds, then     *)
(* terms that grow.                                                        *)
C3_Witness ==
    /\ pc = "sequenced"
    /\ dimension >= 3 /\ slope = 2 /\ length = MaxSeqLen
    /\ sequence[3] = 1
    /\ sequence[4] = dimension
    /\ sequence[length] > sequence[length - 1]

(* The Fibonacci numbers, F(1) = F(2) = 1. *)
RECURSIVE C4_F(_)
C4_F(j) == IF j <= 0 THEN 0 ELSE IF j <= 2 THEN 1 ELSE C4_F(j - 1) + C4_F(j - 2)

C4_Shown == <<1, 1, 2, 3, 5, 8, 13, 21, 34, 55, 89, 144, 233, 377, 610>>

(* C4: in dimension 2 at slope 1 the hypersum of layer n is the Fibonacci  *)
(* number F(n+1), F(1) = F(2) = 1, F(j) = F(j-1) + F(j-2); the sums are    *)
(* the leading terms of 1,1,2,3,5,8,13,21,34,55,89,144,233,377,610.        *)
C4_DiagonalSumsFibonacci ==
    (pc = "summed" /\ builder = "main" /\ dimension = 2 /\ slope = 1) =>
        /\ Len(hypersums) = layers
        /\ \A n \in 0..(layers - 1) : hypersums[n + 1] = C4_F(n + 1)
        /\ hypersums = SubSeq(C4_Shown, 1, Min(layers, Len(C4_Shown)))

C4_Witness ==
    /\ pc = "summed" /\ builder = "main" /\ dimension = 2 /\ slope = 1
    /\ layers = MaxLayers /\ layers >= 12
    /\ hypersums[12] = 144

(* Powers, and the sum of the scalars of a layer (a bare 1 in dimension 1). *)
RECURSIVE C5_Power(_, _)
C5_Power(b, e) == IF e = 0 THEN 1 ELSE b * C5_Power(b, e - 1)

C5_LayerSum(layer) ==
    IF isinstance_int(layer) THEN layer.int ELSE calculate_sum_nested_list(layer)

(* C5: for every dimension d >= 1 the scalars of layer x sum to d^x; layer *)
(* 4 of createPascalSimplex(10, 3) sums to 81.                             *)
C5_RowSum ==
    (pc = "built" /\ builder = "main") =>
        /\ \A x \in 0..(layers - 1) : C5_LayerSum(simplex[x + 1]) = C5_Power(dimension, x)
        /\ (layers = 10 /\ dimension = 3) => C5_LayerSum(simplex[4 + 1]) = 81

C5_Witness ==
    /\ pc = "built" /\ builder = "main" /\ layers = 10 /\ dimension = 3
    /\ isinstance_list(simplex[5])
    /\ calculate_sum_nested_list(simplex[5]) = 81

(* Binomial coefficients by Pascal's rule, and the number of scalars in a layer. *)
RECURSIVE C6_Choose(_, _)
C6_Choose(n, r) ==
    IF r < 0 \/ r > n THEN 0
    ELSE IF r = 0 \/ r = n THEN 1
    ELSE C6_Choose(n - 1, r - 1) + C6_Choose(n - 1, r)

RECURSIVE C6_Scalars(_)
RECURSIVE C6_ScalarsFrom(_, _)
C6_ScalarsFrom(elems, j) ==
    IF j > Len(elems) THEN 0 ELSE C6_Scalars(elems[j]) + C6_ScalarsFrom(elems, j + 1)

C6_Scalars(node) ==
    IF isinstance_int(node) THEN 1 ELSE C6_ScalarsFrom(node.list, 1)

(* C6: createPascalSimplex(layers, dimension), layers >= 0 and             *)
(* dimension >= 1, has exactly `layers` top-level entries (none when       *)
(* layers = 0), and entry x holds C(x + dimension - 1, dimension - 1)      *)
(* scalars.                                                                *)
C6_LayerCounts ==
    (pc = "built" /\ builder = "main") =>
        /\ Len(simplex) = layers
        /\ layers = 0 => simplex = <<>>
        /\ \A x \in 0..(layers - 1) :
              C6_Scalars(simplex[x + 1]) = C6_Choose(x + dimension - 1, dimension - 1)

(* The largest simplex: its last layer holds more scalars than any list of *)
(* it has entries.                                                         *)
C6_Witness ==
    /\ pc = "built" /\ builder = "main"
    /\ layers = MaxLayers /\ dimension = MaxDim /\ dimension >= 3
    /\ Len(simplex) = MaxLayers
    /\ C6_Scalars(simplex[layers]) > layers * layers

(* A node of the given depth whose list at index j has j + 1 entries. *)
RECURSIVE C7_Shape(_, _, _)
C7_Shape(node, n, depth) ==
    IF depth = 0 THEN isinstance_int(node)
    ELSE /\ isinstance_list(node)
         /\ Len(node.list) = n
         /\ \A j \in 0..(n - 1) : C7_Shape(node.list[j + 1], j + 1, depth - 1)

C7_Ints(s) == PyList([i \in 1..Len(s) |-> PyInt(s[i])])

C7_Layer4 ==
    PyList(<<C7_Ints(<<1>>), C7_Ints(<<4, 4>>), C7_Ints(<<6, 12, 6>>),
             C7_Ints(<<4, 12, 12, 4>>), C7_Ints(<<1, 4, 6, 4, 1>>)>>)

(* C7: in dimension d >= 2 every layer is nested to depth exactly d - 1,   *)
(* the top list of layer x has x + 1 entries and the sub-list at index j   *)
(* of any list has j + 1 entries; layer 4 of createPascalSimplex(10, 3) is *)
(* [[1],[4,4],[6,12,6],[4,12,12,4],[1,4,6,4,1]].                           *)
C7_NestingShape ==
    (pc = "built" /\ builder = "main" /\ dimension >= 2) =>
        /\ \A x \in 0..(layers - 1) : C7_Shape(simplex[x + 1], x + 1, dimension - 1)
        /\ (layers = 10 /\ dimension = 3) => simplex[4 + 1] = C7_Layer4

C7_Witness ==
    /\ pc = "built" /\ builder = "main" /\ layers = 10 /\ dimension = 3
    /\ simplex[5] = C7_Layer4

(* Binomial coefficients, and the rows printed for createPascalSimplex(10, 2). *)
RECURSIVE C8_Binomial(_, _)
C8_Binomial(n, r) ==
    IF r = 0 \/ r = n THEN 1 ELSE C8_Binomial(n - 1, r - 1) + C8_Binomial(n - 1, r)

C8_Row(s) == PyList([i \in 1..Len(s) |-> PyInt(s[i])])

C8_Rows10 ==
    <<C8_Row(<<1>>),
      C8_Row(<<1, 1>>),
      C8_Row(<<1, 2, 1>>),
      C8_Row(<<1, 3, 3, 1>>),
      C8_Row(<<1, 4, 6, 4, 1>>),
      C8_Row(<<1, 5, 10, 10, 5, 1>>),
      C8_Row(<<1, 6, 15, 20, 15, 6, 1>>),
      C8_Row(<<1, 7, 21, 35, 35, 21, 7, 1>>),
      C8_Row(<<1, 8, 28, 56, 70, 56, 28, 8, 1>>),
      C8_Row(<<1, 9, 36, 84, 126, 126, 84, 36, 9, 1>>)>>

(* C8: in dimension 2 layer x is the binomial row C(x,0), ..., C(x,x) of   *)
(* length x + 1; for layers = 10 the rows are [1], [1,1], [1,2,1], ...,    *)
(* [1,9,36,84,126,126,84,36,9,1].                                          *)
C8_BinomialRows ==
    (pc = "built" /\ builder = "main" /\ dimension = 2) =>
        /\ \A x \in 0..(layers - 1) :
              /\ isinstance_list(simplex[x + 1])
              /\ Len(simplex[x + 1].list) = x + 1
              /\ \A j \in 0..x : simplex[x + 1].list[j + 1] = PyInt(C8_Binomial(x, j))
        /\ layers = 10 => simplex = C8_Rows10

C8_Witness ==
    /\ pc = "built" /\ builder = "main" /\ layers = 10 /\ dimension = 2
    /\ simplex = C8_Rows10

(* The named sequences by their own recurrences, and the printed outputs. *)
RECURSIVE C9_Fibonacci(_)
C9_Fibonacci(n) == IF n <= 1 THEN 1 ELSE C9_Fibonacci(n - 1) + C9_Fibonacci(n - 2)

RECURSIVE C9_Narayana(_)
C9_Narayana(n) == IF n <= 2 THEN 1 ELSE C9_Narayana(n - 1) + C9_Narayana(n - 3)

RECURSIVE C9_Jacobsthal(_)
C9_Jacobsthal(n) == IF n <= 1 THEN 1 ELSE C9_Jacobsthal(n - 1) + 2 * C9_Jacobsthal(n - 2)

C9_Term(dm, mm, n) ==
    IF dm = 2 /\ mm = 1 THEN C9_Fibonacci(n)
    ELSE IF dm = 2 /\ mm = 2 THEN C9_Narayana(n)
    ELSE C9_Jacobsthal(n)

C9_Shown(dm, mm) ==
    IF dm = 2 /\ mm = 1
    THEN <<1, 1, 2, 3, 5, 8, 13, 21, 34, 55, 89, 144, 233, 377, 610>>
    ELSE IF dm = 2 /\ mm = 2
    THEN <<1, 1, 1, 2, 3, 4, 6, 9, 13, 19, 28, 41, 60, 88, 129>>
    ELSE <<1, 1, 3, 5, 11, 21, 43, 85, 171, 341, 683, 1365, 2731, 5461, 10923>>

C9_Named == {<<2, 1>>, <<2, 2>>, <<3, 1>>}

(* C9: calculateSequence reproduces known sequences term by term:          *)
(* (2, 1, k) is Fibonacci 1,1,2,3,5,8,...; (2, 2, k) is Narayana's cows    *)
(* sequence a_n = a_{n-1} + a_{n-3}; (3, 1, k) is a_n = a_{n-1} + 2a_{n-2} *)
(* from 1, 1; for k = 15 the outputs are the lists shown in the notebook.  *)
C9_KnownSequences ==
    (pc = "sequenced" /\ <<dimension, slope>> \in C9_Named) =>
        /\ Len(sequence) = length
        /\ \A n \in 0..(length - 1) : sequence[n + 1] = C9_Term(dimension, slope, n)
        /\ length = 15 => sequence = C9_Shown(dimension, slope)

C9_Witness ==
    /\ pc = "sequenced" /\ dimension = 3 /\ slope = 1 /\ length = 15
    /\ sequence = C9_Shown(3, 1)
    /\ sequence[15] = 10923

(* The number of triples of a sweep. *)
C10_Count(mD, mM, mK) ==
    IF mD > 1 /\ mM > 1 /\ mK > 1 THEN (mD - 1) * (mM - 1) * (mK - 1) ELSE 0

(* The t-th triple of the sweep, t from 1, k running fastest. *)
C10_Triple(t, mM, mK) ==
    <<((t - 1) \div ((mK - 1) * (mM - 1))) + 1,
      (((t - 1) \div (mK - 1)) % (mM - 1)) + 1,
      ((t - 1) % (mK - 1)) + 1>>

C10_Mismatch(tr) ==
    Hypersums(notebook, Create(builder, tr[3], tr[1]).val, tr[2]).val
        # Sequence(notebook, tr[1], tr[2], tr[3])

C10_InCall == pc \in {"v_body", "v_exit", "returned"}

C10_State ==
    C10_InCall =>
        LET total == C10_Count(maxD, maxM, maxK)
            bad == SelectSeq(checked, C10_Mismatch)
        IN  /\ Len(checked) <= total
            /\ \A t \in 1..Len(checked) : checked[t] = C10_Triple(t, maxM, maxK)
            /\ pc = "v_body" =>
                  /\ Len(checked) < total
                  /\ <<d, m, k>> = C10_Triple(Len(checked) + 1, maxM, maxK)
            /\ pc \in {"v_exit", "returned"} => Len(checked) = total
            /\ Len(printed) = Len(bad)
            /\ \A i \in 1..Len(printed) :
                  /\ <<printed[i].d, printed[i].m, printed[i].k>> = bad[i]
                  /\ printed[i].hypersums # printed[i].sequence
            /\ all_okay = (bad = <<>>)
            /\ pc = "returned" =>
                  result = (\A t \in 1..total : ~C10_Mismatch(C10_Triple(t, maxM, maxK)))

C10_Step ==
    (C10_InCall /\ all_okay = FALSE) => (all_okay' = FALSE /\ pc' # "idle")

(* C10: validateFormula(maxD, maxM, maxK) runs its body for every triple   *)
(* (d, m, k), 1 <= d < maxD, 1 <= m < maxM, 1 <= k < maxK, exactly once,   *)
(* goes on after a mismatch, reports every mismatching triple, and returns *)
(* True exactly when no triple had hypersums different from the sequence;  *)
(* once all_okay is False it stays False, and an empty range returns True. *)
C10_ValidateSweep == [](C10_State) /\ [][C10_Step]_vars

(* A call in a session whose createPascalSimplex is the earlier            *)
(* notebook's has returned False: several triples were reported, triples   *)
(* after the first reported one were still checked, one of them matching.  *)
C10_Witness ==
    /\ pc = "returned" /\ builder = "part_000"
    /\ maxD = MaxValD /\ maxM = MaxValM /\ maxK = MaxValK
    /\ result = FALSE
    /\ Len(checked) = (MaxValD - 1) * (MaxValM - 1) * (MaxValK - 1)
    /\ Len(printed) > 1
    /\ \E i, j \in 1..Len(checked) :
          /\ i < j
          /\ C10_Mismatch(checked[i])
          /\ ~C10_Mismatch(checked[j])

(* C11: calculateHypersumsInPascalSimplex rejects every slope below 1,    *)
(* slope 0 included, with an error raised at the call, before any hypersum *)
(* is computed: a call with such a slope never enters the loop over the    *)
(* layers, appends nothing to res and returns no result.                  *)
C11_SlopeBelowOneRejected ==
    (slope < 1) =>
        /\ pc \notin {"h_loop", "summed"}
        /\ h_res = <<>>
        /\ hypersums = <<>>

(* C12: createPascalSimplex(layers, dimension) raises ValueError for every *)
(* dimension below 1 and returns no simplex, whatever layers is, in both   *)
(* notebooks: the check of the dimension comes before the layers == 0      *)
(* shortcut, so createPascalSimplex(0, 0) fails too; and a simplex is      *)
(* returned only for a dimension of at least 1.                            *)
C12_DimensionBelowOneRaises ==
    /\ (pc \in {"built", "summed", "raised"} /\ dimension < 1) =>
          /\ pc = "raised"
          /\ result = "ValueError"
          /\ simplex = <<>>
    /\ (pc = "raised" /\ maxD = 0) => dimension < 1

(* createPascalSimplex(0, 0) of the main notebook has raised. *)
C12_Witness ==
    /\ pc = "raised" /\ builder = "main"
    /\ layers = 0 /\ dimension = 0
    /\ result = "ValueError"

(* C13: for dimension 1 and every layers >= 0, createPascalSimplex returns *)
(* a flat list of exactly `layers` bare integers, each equal to 1, with no *)
(* nested list.                                                            *)
C13_DimensionOneFlatOnes ==
    (pc = "built" /\ dimension = 1) =>
        /\ Len(simplex) = layers
        /\ \A x \in 1..layers :
              /\ isinstance_int(simplex[x])
              /\ ~isinstance_list(simplex[x])
              /\ simplex[x] = PyInt(1)

(* The notebook's cell createPascalSimplex(10, 1) has printed ten ones. *)
C13_Witness ==
    /\ pc = "built" /\ builder = "main"
    /\ dimension = 1 /\ layers = 10
    /\ simplex = [x \in 1..10 |-> PyInt(1)]

(* The running pass fetches a bare integer: idx = layer - i * m is a valid *)
(* index and simplex[idx] is an int.                                       *)
C14_ScalarFetched ==
    /\ pc = "h_loop"
    /\ h_i < MaxPasses
    /\ LET idx == h_layer - h_i * slope
       IN  /\ 0 <= idx /\ idx < Len(simplex)
           /\ isinstance_int(simplex[idx + 1])

C14_State ==
    /\ C14_ScalarFetched => (dimension = 1 /\ h_i = 0 /\ h_plain_sum = 0)
    /\ (pc = "h_loop" /\ dimension = 1) =>
          (C14_ScalarFetched /\ h_res = [x \in 1..h_layer |-> 1])
    /\ (pc = "h_loop" /\ dimension >= 2) => ~C14_ScalarFetched
    /\ (pc = "summed" /\ dimension = 1) => hypersums = [x \in 1..layers |-> 1]

C14_Step ==
    C14_ScalarFetched =>
        /\ h_res' = Append(h_res, 1)
        /\ \/ pc' = "summed" /\ hypersums' = h_res' /\ h_i' = 0 /\ h_plain_sum' = 1
           \/ pc' = "h_loop" /\ h_layer' = h_layer + 1 /\ h_i' = 0

(* C14: on a 1-dimensional simplex calculateHypersumsInPascalSimplex       *)
(* returns 1 for every layer whatever the slope: the pass at i = 0 takes   *)
(* the bare-integer branch, which sets plain_sum to 1 and breaks, so 1 is  *)
(* appended after a single pass; and that branch is taken only on a        *)
(* 1-dimensional simplex, never on one built with dimension >= 2.          *)
C14_OneDimensionalOnes == [](C14_State) /\ [][C14_Step]_vars

(* A call on createPascalSimplex(4, 1) has returned four ones, its last    *)
(* pass having stopped at i = 0 with plain_sum = 1.                        *)
C14_Witness ==
    /\ pc = "summed" /\ dimension = 1 /\ layers = 4 /\ slope = 2
    /\ hypersums = <<1, 1, 1, 1>>
    /\ h_i = 0 /\ h_plain_sum = 1

(* C15: calculateSequence(dimension, m, k) returns exactly k elements for *)
(* every k >= 0 and slope m >= 1, both when k <= m + 1, where only seed    *)
(* terms are produced, and when k > m + 1; for k = 0 it returns the empty  *)
(* list.                                                                   *)
C15_SequenceLength ==
    (pc = "sequenced" /\ slope >= 1 /\ length >= 0) =>
        /\ Len(sequence) = length
        /\ DOMAIN sequence = 1..length
        /\ length = 0 => sequence = <<>>

(* A sequence shorter than its m + 1 seeds has been computed. *)
C15_Witness ==
    /\ pc = "sequenced" /\ dimension = 3 /\ slope = 5 /\ length = 3
    /\ sequence = <<1, 1, 1>>

C16_NonNegative(seq) == \A x \in 1..Len(seq) : seq[x] \in Nat

C16_State ==
    /\ (pc = "h_loop" /\ slope >= 1) =>
          /\ Len(h_res) = h_layer
          /\ h_layer < Len(simplex)
          /\ C16_NonNegative(h_res)
          /\ h_plain_sum \in Nat
    /\ (pc = "summed" /\ slope >= 1) =>
          /\ Len(hypersums) = Len(simplex)
          /\ Len(hypersums) = layers
          /\ C16_NonNegative(hypersums)
          /\ simplex = <<>> => hypersums = <<>>

(* A pass that changes res puts the sum of the layer just finished behind  *)
(* the sums of the layers before it, and the returned list is that res.    *)
C16_Step ==
    (pc = "h_loop" /\ slope >= 1 /\ h_res' # h_res) =>
        /\ Len(h_res') = h_layer + 1
        /\ SubSeq(h_res', 1, h_layer) = h_res
        /\ h_res'[h_layer + 1] \in Nat
        /\ pc' = "summed" => hypersums' = h_res'
        /\ pc' = "h_loop" => h_layer' = h_layer + 1

(* C16: calculateHypersumsInPascalSimplex(simplex, m) returns exactly one  *)
(* non-negative integer per layer, in layer order: for every simplex and   *)
(* slope m >= 1 the output has len(simplex) entries, the entry of layer x  *)
(* at position x, and the empty simplex gives the empty output.            *)
C16_OnePerLayer == [](C16_State) /\ [][C16_Step]_vars

(* The sums of createPascalSimplex(5, 2) at slope 1 have been returned. *)
C16_Witness ==
    /\ pc = "summed" /\ builder = "main"
    /\ dimension = 2 /\ layers = 5 /\ slope = 1
    /\ Len(simplex) = 5
    /\ hypersums = <<1, 1, 2, 3, 5>>

C17_HasSimplex == pc \in {"built", "h_loop", "summed"}

C17_State ==
    /\ C17_HasSimplex => simplex = Create(builder, layers, dimension).val
    /\ (pc = "summed" /\ slope >= 1) =>
          hypersums = calculateHypersumsInPascalSimplex(
                          Create(builder, layers, dimension).val, slope)

C17_Step == C17_HasSimplex => simplex' = simplex

(* C17: calculateHypersumsInPascalSimplex, with calculate_sum_nested_list  *)
(* which it calls, leaves the simplex it is given unchanged: no pass and   *)
(* no call changes a layer or a nested entry, so the simplex stays the one *)
(* createPascalSimplex returned, and a later call with another slope       *)
(* returns the sums of that simplex.                                       *)
C17_SimplexUnchanged == [](C17_State) /\ [][C17_Step]_vars

(* A second call is running on a simplex whose sums an earlier call has    *)
(* returned; the simplex is still what createPascalSimplex(4, 3) built.    *)
C17_Witness ==
    /\ pc = "h_loop" /\ h_layer = 3 /\ h_i = 1
    /\ hypersums # <<>>
    /\ builder = "main" /\ layers = 4 /\ dimension = 3
    /\ simplex = createPascalSimplex(4, 3).val
    /\ Len(simplex[4].list) = 4

(* The sequence of the earlier notebook: ones for d = 1, else (d-1)^n below *)
(* m + 1 and (d-1) x_{n-1} + x_{n-(m+1)} from there on.                    *)
RECURSIVE C19_Power(_, _)
C19_Power(base, e) == IF e <= 0 THEN 1 ELSE base * C19_Power(base, e - 1)

RECURSIVE C19_X(_, _, _)
C19_X(dd, mm, n) ==
    IF dd = 1 THEN 1
    ELSE IF n < mm + 1 THEN C19_Power(dd - 1, n)
    ELSE (dd - 1) * C19_X(dd, mm, n - 1) + C19_X(dd, mm, n - (mm + 1))

C19_InCall == pc \in {"v_body", "v_exit", "returned"}

(* C19: in the earlier notebook (parts ascending, the number of terms      *)
(* given by calculateNumberOfPlainElements) the hypersums of               *)
(* createPascalSimplex(k, d) at slope m equal that notebook's              *)
(* calculateSequence(d, m, k), which is x_n = (d-1)^n for n < min(k, m+1), *)
(* x_n = (d-1) x_{n-1} + x_{n-(m+1)} for n >= m+1, and k ones for d = 1;   *)
(* so no pass of its validateFormula finds a mismatch and it returns True. *)
C19_EarlierVariantFormula ==
    /\ (pc = "summed" /\ notebook = "part_000" /\ layers >= 1) =>
          /\ hypersums = calculateSequence_part000(dimension, slope, layers)
          /\ Len(hypersums) = layers
          /\ \A n \in 0..(layers - 1) :
                hypersums[n + 1] = C19_X(dimension, slope, n)
    /\ (C19_InCall /\ notebook = "part_000") =>
          /\ all_okay = TRUE /\ printed = <<>>
          /\ checked # <<>> =>
                /\ hypersums = sequence
                /\ LET t == checked[Len(checked)]
                   IN  /\ Len(sequence) = t[3]
                       /\ \A n \in 0..(t[3] - 1) :
                             sequence[n + 1] = C19_X(t[1], t[2], n)
          /\ pc = "returned" => result = TRUE

(* The earlier notebook has summed createPascalSimplex(6, 3) at slope 2:   *)
(* seeds 1, 2, 4 and then 2 x_{n-1} + x_{n-3}.                             *)
C19_Witness ==
    /\ pc = "summed" /\ notebook = "part_000" /\ builder = "part_000"
    /\ dimension = 3 /\ slope = 2 /\ layers = 6
    /\ hypersums = <<1, 2, 4, 9, 20, 44>>

(* The sequence of the docstring: x_n = (d-1)^n up to the seeds, then     *)
(* x_n = (d-1) x_{n-1} + x_{n-(m+1)}.                                      *)
RECURSIVE C20_Power(_, _)
C20_Power(base, e) == IF e <= 0 THEN 1 ELSE base * C20_Power(base, e - 1)

RECURSIVE C20_X(_, _, _)
C20_X(dd, mm, n) ==
    IF n < mm + 1 THEN C20_Power(dd - 1, n)
    ELSE (dd - 1) * C20_X(dd, mm, n - 1) + C20_X(dd, mm, n - (mm + 1))

(* C20: calculateSequence of the main notebook follows the recurrence of   *)
(* its docstring, x_n = (d-1) x_{n-1} + x_{n-(m+1)} with initial terms     *)
(* x_n = (d-1)^n: every element of the returned list is that x_n (stated  *)
(* here for d >= 2, where (d-1)^n is not a power of 0).                    *)
C20_DocstringRecurrence ==
    (pc = "sequenced" /\ dimension >= 2) =>
        \A n \in 0..(length - 1) : sequence[n + 1] = C20_X(dimension, slope, n)

(* A pass of the inner loop is about to run for a slope >= 1 on a simplex *)
(* of dimension >= 2.                                                      *)
C21_InLoop == pc = "h_loop" /\ slope >= 1 /\ dimension >= 2

C21_idx == h_layer - h_i * slope

C21_State ==
    C21_InLoop =>
        /\ h_i <= (h_layer \div slope) + 1
        /\ C21_idx <= h_layer
        /\ C21_idx < Len(simplex)
        /\ C21_idx < 0 <=> h_i = (h_layer \div slope) + 1
        /\ C21_idx >= 0 => isinstance_list(simplex[C21_idx + 1])

C21_Step ==
    C21_InLoop =>
        IF C21_idx >= 0
        THEN /\ pc' = "h_loop" /\ h_layer' = h_layer /\ h_res' = h_res
             /\ h_i' = h_i + 1
             /\ IF h_i < Len(simplex[C21_idx + 1].list)
                THEN h_plain_sum' > h_plain_sum
                ELSE h_plain_sum' = h_plain_sum
        ELSE /\ h_res' = Append(h_res, h_plain_sum)
             /\ pc' = "summed" \/ (h_layer' = h_layer + 1 /\ h_i' = 0)

(* C21: for slope m >= 1 and every layer L of a simplex of dimension >= 2  *)
(* the inner loop of calculateHypersumsInPascalSimplex terminates: it runs *)
(* the passes i = 0..floor(L/m) with idx = L - i*m in 0..L, so the         *)
(* IndexError handler never fires; a pass whose i is out of bounds for     *)
(* simplex[idx] adds nothing and does not end the loop; the loop ends only *)
(* at the first pass with idx < 0; and the call returns.                   *)
C21_InnerLoopTerminates ==
    /\ [](C21_State)
    /\ [][C21_Step]_vars
    /\ (C21_InLoop ~> pc = "summed")

(* Layer 1 at slope 1, pass i = 1: idx = 0 is valid but layer 0 has no     *)
(* entry at index 1; the pass will add nothing and the loop will go on.    *)
C21_Witness ==
    /\ C21_InLoop
    /\ h_layer = 1 /\ slope = 1 /\ h_i = 1
    /\ C21_idx = 0
    /\ h_i >= Len(simplex[C21_idx + 1].list)
    /\ h_plain_sum = 1

(* The binomial coefficient C(n, j), by C(n, j) = C(n, j-1) (n-j+1) / j. *)
RECURSIVE C22_Choose(_, _)
C22_Choose(n, j) ==
    IF j < 0 \/ j > n THEN 0
    ELSE IF j = 0 THEN 1
    ELSE (C22_Choose(n, j - 1) * (n - j + 1)) \div j

RECURSIVE C22_Power(_, _)
C22_Power(base, e) == IF e <= 0 THEN 1 ELSE base * C22_Power(base, e - 1)

(* The sum over i = from, from + 1, ... with i (m+1) <= L of              *)
(* C(L - i m, i) (d-1)^i.                                                  *)
RECURSIVE C22_SumFrom(_, _, _, _)
C22_SumFrom(dd, mm, L, from) ==
    IF from * (mm + 1) > L THEN 0
    ELSE C22_Choose(L - from * mm, from) * C22_Power(dd - 1, from)
            + C22_SumFrom(dd, mm, L, from + 1)

(* The sum of the scalars of one entry of a layer. *)
C22_BlockSum(entry) ==
    IF isinstance_int(entry) THEN entry.int ELSE calculate_sum_nested_list(entry)

C22_Shown == <<1, 1, 1, 1, 1, 2, 3, 4, 5, 6, 8, 11, 15, 20, 26>>

(* C22: for dimension d >= 2, slope m >= 1 and every layer L the hypersum  *)
(* computed on the output of createPascalSimplex is the sum over all       *)
(* i >= 0 with i (m+1) <= L of C(L - i m, i) (d-1)^i: the entry at index i *)
(* of a layer x is the block of first part k_1 = x - i, whose scalars sum  *)
(* to C(x, i) (d-1)^i; for d = 2, m = 4 the sums are 1, 1, 1, 1, 1, 2, 3,  *)
(* 4, 5, 6, 8, 11, 15, 20, 26.                                             *)
C22_HypersumClosedForm ==
    /\ (pc \in {"built", "summed"} /\ builder = "main" /\ dimension >= 2) =>
          \A x \in 0..(layers - 1) :
              /\ Len(simplex[x + 1].list) = x + 1
              /\ \A i \in 0..x :
                    C22_BlockSum(simplex[x + 1].list[i + 1])
                        = C22_Choose(x, i) * C22_Power(dimension - 1, i)
    /\ (pc = "summed" /\ builder = "main" /\ dimension >= 2) =>
          /\ \A L \in 0..(layers - 1) :
                hypersums[L + 1] = C22_SumFrom(dimension, slope, L, 0)
          /\ (dimension = 2 /\ slope = 4) =>
                /\ hypersums = SubSeq(C22_Shown, 1, layers)
                /\ \A L \in 0..(Len(C22_Shown) - 1) :
                      C22_SumFrom(2, 4, L, 0) = C22_Shown[L + 1]

(* The sums of the largest 3-dimensional simplex at slope 2 are returned;  *)
(* layer 6 has the terms i = 0, 1, 2: 1 + C(4,1) 2 + C(2,2) 4 = 13.        *)
C22_Witness ==
    /\ pc = "summed" /\ builder = "main"
    /\ dimension = 3 /\ slope = 2 /\ layers = MaxLayers /\ layers >= 7
    /\ hypersums[7] = 13
    /\ C22_BlockSum(simplex[5].list[2]) = 8

(* A call with slope 0 on a non-empty simplex of dimension >= 2 is in its *)
(* inner loop.                                                             *)
C23_InLoop == pc = "h_loop" /\ slope = 0 /\ dimension >= 2

C23_State ==
    /\ C23_InLoop =>
          /\ h_layer = 0 /\ h_res = <<>>
          /\ h_layer - h_i * slope = h_layer
          /\ h_layer < Len(simplex)
          /\ isinstance_list(simplex[h_layer + 1])
    /\ (pc = "summed" /\ slope = 0) =>
          /\ dimension = 1 \/ layers = 0
          /\ hypersums = [x \in 1..layers |-> 1]
    /\ pc = "raised" => dimension < 1

C23_Step ==
    (C23_InLoop /\ h_i < MaxPasses) =>
        /\ pc' = "h_loop" /\ slope' = 0
        /\ h_layer' = h_layer /\ h_res' = h_res
        /\ h_i' = h_i + 1

(* C23: with slope m = 0 and a non-empty simplex of dimension >= 2         *)
(* calculateHypersumsInPascalSimplex never terminates and raises no error: *)
(* idx stays equal to the layer index at every pass, so each pass only     *)
(* increases i and the call stays in the loop of layer 0 without ever      *)
(* appending or returning; only for a 1-dimensional (or empty) simplex     *)
(* does the call with m = 0 return, with all ones.                         *)
C23_SlopeZeroNeverReturns == [](C23_State) /\ [][C23_Step]_vars

(* After MaxPasses passes the call on a 2-dimensional simplex is still in  *)
(* the loop of layer 0.                                                    *)
C23_Witness ==
    /\ C23_InLoop /\ dimension = 2 /\ layers = 3
    /\ h_i = MaxPasses /\ h_layer = 0
    /\ h_plain_sum = 1 /\ h_res = <<>>

(* The earlier notebook's createPascalSimplex is bound and the main       *)
(* notebook's calculateHypersumsInPascalSimplex has returned.              *)
C24_MixedSummed ==
    pc = "summed" /\ builder = "part_000" /\ notebook = "main"

RECURSIVE C25_Factorial(_)
C25_Factorial(n) == IF n <= 0 THEN 1 ELSE n * C25_Factorial(n - 1)

RECURSIVE C25_Product(_)
C25_Product(ks) ==
    IF ks = <<>> THEN 1 ELSE C25_Factorial(ks[1]) * C25_Product(Tail(ks))

(* The plain depth-first recursion: each part from the remaining budget    *)
(* down to 0, the last part taking what remains.                           *)
RECURSIVE C25_Recursion(_, _, _, _)
C25_Recursion(ks, remaining, x, dim) ==
    IF Len(ks) = dim - 1
    THEN PyInt(C25_Factorial(x) \div C25_Product(Append(ks, remaining)))
    ELSE PyList([j \in 1..(remaining + 1) |->
                    C25_Recursion(Append(ks, remaining - (j - 1)), j - 1, x, dim)])

C25_State ==
    /\ pc = "c_layer" =>
          /\ \A a \in 1..Len(g_stack) :
                /\ SublistAt(g_layer, g_stack[a].sub).list = <<>>
                /\ \A b \in 1..Len(g_stack) :
                      g_stack[a].sub = g_stack[b].sub => a = b
          /\ g_stack = <<>> => g_layer = C25_Recursion(<<>>, g_x, g_x, dimension)
          /\ Len(g_simplex) = g_x
          /\ \A x \in 0..(g_x - 1) :
                g_simplex[x + 1] = C25_Recursion(<<>>, x, x, dimension)
    /\ (pc = "built" /\ dimension >= 2) =>
          /\ Len(simplex) = layers
          /\ \A x \in 0..(layers - 1) :
                simplex[x + 1] = C25_Recursion(<<>>, x, x, dimension)

(* A pass fills the sub-list of the item it pops, which is then no longer  *)
(* on the stack.                                                           *)
C25_Step ==
    (pc = "c_layer" /\ g_stack # <<>>) =>
        LET top == g_stack[Len(g_stack)]
        IN  /\ Len(SublistAt(g_layer', top.sub).list) = top.remaining + 1
            /\ \A a \in 1..Len(g_stack') : g_stack'[a].sub # top.sub
            /\ g_x' = g_x /\ pc' = "c_layer"

(* C25: for every x >= 0 and dimension >= 2 the explicit-stack             *)
(* generate_layer terminates with an empty stack and returns the nested    *)
(* list of a plain depth-first recursion that enumerates each part from    *)
(* the remaining budget down to 0: popping the work items last-in          *)
(* first-out does not change where a sub-list or coefficient lands, and    *)
(* every pushed sub-list is filled exactly once.                           *)
C25_StackEqualsRecursion ==
    /\ [](C25_State)
    /\ [][C25_Step]_vars
    /\ (pc = "c_layer" ~> (pc = "c_layer" /\ g_stack = <<>>))
    /\ (pc \in {"c_fact", "c_layer"} ~> pc = "built")

(* generate_layer(3, 4) under way: the sub-list pushed last has been       *)
(* filled first, the one pushed first is still empty and on the stack.     *)
C25_Witness ==
    /\ pc = "c_layer" /\ dimension = 4 /\ g_x = 3
    /\ Len(g_layer.list) = 4
    /\ g_layer.list[4].list # <<>>
    /\ g_layer.list[1].list = <<>>
    /\ g_stack # <<>> /\ g_stack[1].sub = <<0>>

RECURSIVE C26_Factorial(_)
C26_Factorial(n) == IF n <= 0 THEN 1 ELSE n * C26_Factorial(n - 1)

(* The indices of fact a pass reads for the work item t: x, and for each   *)
(* part k of 0..remaining, k and remaining - k (remaining itself is among  *)
(* them).                                                                  *)
C26_Reads(t) ==
    {g_x, t.remaining}
        \cup {kk : kk \in 0..t.remaining}
        \cup {t.remaining - kk : kk \in 0..t.remaining}

C26_State ==
    /\ pc = "c_fact" =>
          /\ Len(g_fact) = layers
          /\ 1 <= g_i /\ g_i <= layers
          /\ \A j \in 0..(g_i - 1) : g_fact[j + 1] = C26_Factorial(j)
          /\ \A j \in g_i..(layers - 1) : g_fact[j + 1] = 1
    /\ pc = "c_layer" =>
          /\ dimension >= 2 /\ layers >= 1
          /\ g_i = layers
          /\ Len(g_fact) = layers
          /\ \A j \in 0..(layers - 1) : g_fact[j + 1] = C26_Factorial(j)
          /\ \A a \in 1..Len(g_stack) : C26_Reads(g_stack[a]) \subseteq 0..(layers - 1)

C26_Step ==
    /\ pc = "c_layer" => g_fact' = g_fact
    /\ (pc = "c_fact" /\ g_i < layers) =>
          /\ pc' = "c_fact"
          /\ \A j \in 0..(g_i - 1) : g_fact'[j + 1] = g_fact[j + 1]
    /\ (pc = "c_fact" /\ pc' = "c_layer") =>
          (g_fact' = g_fact /\ g_simplex' = <<>> /\ g_x' = 0)

(* C26: in createPascalSimplex with dimension >= 2 and layers >= 1 the     *)
(* factorial table is filled once, before any layer is generated, with     *)
(* fact[i] = i! for every 0 <= i < layers; it is never modified            *)
(* afterwards; and every index used to read it while a layer is generated  *)
(* (x, k, remaining - k, remaining) lies in 0..layers-1.                   *)
C26_FactorialTable == [](C26_State) /\ [][C26_Step]_vars

(* The last layer of the largest simplex is being generated from the       *)
(* complete table; the item on top of the stack reads the last entry.      *)
C26_Witness ==
    /\ pc = "c_layer" /\ layers = MaxGenLayers /\ dimension = 3
    /\ g_x = layers - 1
    /\ g_stack # <<>> /\ g_stack[Len(g_stack)].remaining = g_x
    /\ g_fact[layers] = C26_Factorial(layers - 1)
    /\ g_fact[5] = 24

(* The work item t is at the penultimate depth: the pass that pops it     *)
(* emits coefficients.                                                     *)
C27_Emits(t) == t.depth + 1 = dimension - 1

(* denominator = fact_prod * fact[k] * fact[k_last] for the part kk of t *)
C27_Denominator(t, kk) ==
    t.fact_prod * g_fact[kk + 1] * g_fact[(t.remaining - kk) + 1]

C27_State ==
    pc = "c_layer" =>
        \A a \in 1..Len(g_stack) :
            LET t == g_stack[a]
            IN  /\ t.fact_prod > 0
                /\ g_fact[g_x + 1] % t.fact_prod = 0
                /\ C27_Emits(t) =>
                      \A kk \in 0..t.remaining :
                          /\ C27_Denominator(t, kk) > 0
                          /\ g_fact[g_x + 1] % C27_Denominator(t, kk) = 0

(* The coefficients a pass appends, times their denominators, give back    *)
(* fact[x]: nothing was cut off.                                           *)
C27_Step ==
    (pc = "c_layer" /\ g_stack # <<>> /\ C27_Emits(g_stack[Len(g_stack)])) =>
        LET t == g_stack[Len(g_stack)]
            filled == SublistAt(g_layer', t.sub).list
        IN  /\ Len(filled) = t.remaining + 1
            /\ \A j \in 1..Len(filled) :
                  /\ isinstance_int(filled[j])
                  /\ filled[j].int * C27_Denominator(t, t.remaining - (j - 1))
                        = g_fact[g_x + 1]

(* C27: every integer division performed while a layer is generated in     *)
(* createPascalSimplex is exact: for each emitted coefficient the          *)
(* denominator fact_prod * fact[k] * fact[k_last] is positive and divides  *)
(* fact[x] with remainder 0, so the floor division never truncates.        *)
C27_ExactDivision == [](C27_State) /\ [][C27_Step]_vars

(* In generate_layer(6, 4) an item with first parts 1 and 2 is about to    *)
(* emit: fact_prod = 1! 2! = 2 and the denominators divide 6! = 720.       *)
C27_Witness ==
    /\ pc = "c_layer" /\ dimension = 4 /\ g_x = 6
    /\ g_stack # <<>>
    /\ LET t == g_stack[Len(g_stack)]
       IN  /\ C27_Emits(t)
           /\ t.fact_prod = 2 /\ t.remaining = 3
           /\ C27_Denominator(t, 1) = 4
    /\ g_fact[g_x + 1] = 720

(* The first n entries of a list. *)
C28_Prefix(seq, n) == SubSeq(seq, 1, n)

(* C28: results do not depend on the requested length.  For k <= k',       *)
(* dimension d >= 1 and slope m >= 1, createPascalSimplex(k, d) is the     *)
(* first k layers of createPascalSimplex(k', d), the hypersums of the      *)
(* former are the first k hypersums of the latter, and                     *)
(* calculateSequence(d, m, k) is the first k terms of                      *)
(* calculateSequence(d, m, k').                                            *)
C28_PrefixStable ==
    /\ (pc \in {"built", "summed"} /\ builder = "main" /\ dimension >= 1) =>
          \A kk \in 0..layers :
              createPascalSimplex(kk, dimension).val = C28_Prefix(simplex, kk)
    /\ (pc = "summed" /\ builder = "main" /\ dimension >= 1 /\ slope >= 1) =>
          \A kk \in 0..layers :
              calculateHypersumsInPascalSimplex(
                  createPascalSimplex(kk, dimension).val, slope)
                  = C28_Prefix(hypersums, kk)
    /\ (pc = "sequenced" /\ dimension >= 1 /\ slope >= 1) =>
          \A kk \in 0..length :
              calculateSequence(dimension, slope, kk) = C28_Prefix(sequence, kk)

(* The sums of the largest 3-dimensional simplex at slope 2 begin with the *)
(* sums of createPascalSimplex(5, 3).                                      *)
C28_Witness ==
    /\ pc = "summed" /\ builder = "main"
    /\ dimension = 3 /\ slope = 2 /\ layers = MaxLayers /\ layers > 5
    /\ C28_Prefix(hypersums, 5) = <<1, 1, 1, 3, 5>>
    /\ calculateHypersumsInPascalSimplex(createPascalSimplex(5, 3).val, 2)
          = <<1, 1, 1, 3, 5>>
    /\ hypersums # C28_Prefix(hypersums, 5)

====
